---- MODULE Spec2Model ----
(***************************************************************************)
(* Control loops of mcp_react:                                             *)
(*   - the Reflexion loop  (reflexion/seo_nodes.py, reflexion/seo_graph.py,*)
(*     reflexion/seo_schemas.py): seo_actor -> seo_evaluator ->            *)
(*     route_after_seo_eval -> seo_reflector, driven either by the         *)
(*     LangGraph wiring or by SimpleReflexionGraph;                        *)
(*   - the ReAct loop (nodes/__init__.py, server/main.py): think -> act -> *)
(*     observe, driven by SimpleGraph;                                     *)
(*   - the episodic memory SEOMemoryState on its own.                      *)
(* Timestamps and prompt texts are not modelled: no control decision       *)
(* reads them.                                                             *)
(***************************************************************************)
EXTENDS Integers, Sequences, FiniteSets, TLC

VARIABLES
    langgraph,     \* seo_graph.LANGGRAPH_AVAILABLE
    seo,           \* the SEOReflexionState of the run
    seo_node,      \* SimpleReflexionGraph.invoke: current_node / LangGraph: next node
    seo_phases,    \* history: the node functions invoked so far, in order
    seo_routes,    \* history: (current_attempt, answer) of every route_after_seo_eval call
    seo_spins,     \* loop iterations of SimpleReflexionGraph.invoke that ran no node
    seo_call,      \* history: the oracle call of the most recent node invocation
    seo_result,    \* the dict returned by improve_product_description_with_reflexion
    react,         \* the HybrisReActState of the run
    react_node,    \* SimpleGraph.invoke: current_node
    react_phases,  \* history: the node functions invoked so far, in order
    react_oracle,  \* history: the action_type the oracle chose at each act call
    react_calls,   \* history: the tool calls made by observe_node, with their results
    react_prompt,  \* history: the trajectory in the messages of the latest oracle call
    react_status,  \* "running", "returned" or "raised"
    mem,           \* a SEOMemoryState on its own
    mem_added      \* history: concatenation of every list passed to add_reflections

vars == <<langgraph, seo, seo_node, seo_phases, seo_routes, seo_spins, seo_call,
          seo_result, react, react_node, react_phases, react_oracle, react_calls,
          react_prompt, react_status, mem, mem_added>>

seoVars   == <<langgraph, seo, seo_node, seo_phases, seo_routes, seo_spins, seo_call,
               seo_result>>
reactVars == <<react, react_node, react_phases, react_oracle, react_calls, react_prompt,
               react_status>>
memVars   == <<mem, mem_added>>

(***************************************************************************)
(* Bounds of the exploration.                                              *)
(***************************************************************************)
MaxAttemptsBound == 3      \* max_attempts ranges over 0..MaxAttemptsBound
MaxMinCycles     == 2      \* min_reflection_cycles ranges over 0..MaxMinCycles
MaxSpins         == 2      \* node-less loop iterations are counted modulo MaxSpins
MaxStepsBound    == 5      \* max_steps ranges over 1..MaxStepsBound
MaxCapacity      == 3      \* memory_capacity ranges over 0..MaxCapacity
MaxAdded         == 5      \* lessons added to a stand-alone memory
MaxEvalCalls     == 2      \* direct seo_evaluator calls on one state

Min(a, b) == IF a <= b THEN a ELSE b

(***************************************************************************)
(* Text values.  A lesson is a sequence of tokens, so that startswith and  *)
(* strip are computed rather than assumed.                                 *)
(***************************************************************************)
PREFIX == "Proxima vez"

LessonA     == <<PREFIX, ", ", "usar keywords">>     \* already framed
LessonB     == <<"mejorar CTA">>                     \* lacks the framing
LessonBlank == <<" ">>                               \* blank after strip

IsBlankToken(t) == t \in {" ", ""}

\* str.strip() == "" : every token is whitespace
StripIsEmpty(s) == \A i \in 1..Len(s) : IsBlankToken(s[i])

\* lesson.startswith("Próxima vez")
StartsWithPrefix(s) == Len(s) >= 1 /\ s[1] = PREFIX

(***************************************************************************)
(* Reflexion: oracle answers.                                              *)
(***************************************************************************)
\* llm.invoke in seo_actor: a text, a blank text, or an exception
ActorOracle == {"gen", " ", "raise"}

\* with_structured_output(SEOCriteria).invoke in seo_evaluator: the six
\* rubric points <<keyword_density, readability, call_to_action,
\* product_benefits, technical_specs, emotional_appeal>>, or an exception
CriteriaLow  == <<10, 10, 10, 10, 10, 10>>
CriteriaEdge == <<20, 10, 10, 20, 10, 10>>
CriteriaHigh == <<20, 15, 15, 20, 15, 10>>
CriteriaOver == <<21, 15, 15, 20, 15, 15>>
EvalOracle == {CriteriaLow, CriteriaEdge, CriteriaHigh, CriteriaOver, <<>>}

\* with_structured_output(SEOReflectionResponse).invoke in seo_reflector:
\* a list of lessons, or an exception (the empty list fails min_length=1,
\* four lessons fail max_length=3)
ReflectOracle ==
    {<<LessonA, LessonB, LessonA>>, <<LessonB, LessonBlank>>, <<LessonBlank>>, <<>>,
     <<LessonA, LessonA, LessonA, LessonA>>}

Thresholds == {80}

\* SEOCriteria field bounds (ge=0, le=...)
CriteriaMax == <<20, 15, 15, 20, 15, 15>>

CriteriaValid(c) ==
    /\ Len(c) = 6
    /\ \A i \in 1..6 : c[i] >= 0 /\ c[i] <= CriteriaMax[i]

\* SEOCriteria.total_score
total_score(c) == c[1] + c[2] + c[3] + c[4] + c[5] + c[6]

(***************************************************************************)
(* Reflexion: state.                                                       *)
(***************************************************************************)
\* SEOReflexionState.create_initial(task, max_attempts=...) followed by
\* initial_state.evaluator.score_threshold = score_threshold
create_initial(maxAtt, minCyc, thr) ==
    [ global_state |-> [ max_attempts |-> maxAtt,
                         min_reflection_cycles |-> minCyc,
                         is_done |-> FALSE,
                         current_attempt |-> 0,
                         completed_reflection_cycles |-> 0 ],
      actor        |-> [ current_description |-> "None", attempt_count |-> 0 ],
      evaluator    |-> [ last_score |-> 0, last_feedback |-> "None",
                         score_threshold |-> thr, evaluation_history |-> <<>> ],
      seo_memory   |-> [ lessons |-> <<>>, memory_capacity |-> 3 ],
      trajectory   |-> [ attempts |-> <<>> ] ]

\* all_reflections[-memory_capacity:]  (Python slice with a negative start;
\* -0 is 0, so capacity 0 keeps the whole list)
SliceLast(s, cap) ==
    LET n     == Len(s)
        start == IF cap <= 0 THEN Min(0 - cap, n) ELSE IF cap >= n THEN 0 ELSE n - cap
    IN  SubSeq(s, start + 1, n)

\* SEOMemoryState.add_reflections
add_reflections(m, new_reflections) ==
    [m EXCEPT !.lessons = SliceLast(m.lessons \o new_reflections, m.memory_capacity)]

(***************************************************************************)
(* Reflexion: node functions.                                              *)
(***************************************************************************)
\* "not description" for "not description.strip()"
DescriptionBlank_no_strip(d) == d \in {"None", ""}

\* not description.strip()
DescriptionBlank(d) == d \in {"None", "", " "}

\* seo_actor that counts the attempt only after the oracle call succeeded
seo_actor_count_after_call(state, answer) ==
    IF answer = "raise" \/ DescriptionBlank(answer)
    THEN [state EXCEPT !.actor.current_description = "fallback",
                       !.actor.attempt_count = @ + 1]
    ELSE [state EXCEPT !.global_state.current_attempt = @ + 1,
                       !.actor.current_description = answer,
                       !.actor.attempt_count = @ + 1]

seo_actor(state, answer) ==
    LET description == IF answer = "raise" \/ DescriptionBlank(answer)
                       THEN "fallback" ELSE answer
    IN  [state EXCEPT !.global_state.current_attempt = @ + 1,
                      !.actor.current_description = description,
                      !.actor.attempt_count = @ + 1]

\* the (score, feedback) pair of a seo_evaluator that clamps an out-of-range
\* record to 0..100 instead of rejecting it
EvalOutcome_clamped(state, answer) ==
    IF DescriptionBlank(state.actor.current_description)
    THEN [score |-> 0, feedback |-> "No hay descripcion para evaluar"]
    ELSE IF Len(answer) = 6
         THEN [score |-> Min(total_score(answer), 100), feedback |-> "feedback_summary"]
         ELSE [score |-> 0, feedback |-> "Error en evaluacion SEO"]

\* the (score, feedback) pair seo_evaluator computes
EvalOutcome(state, answer) ==
    IF DescriptionBlank(state.actor.current_description)
    THEN [score |-> 0, feedback |-> "No hay descripcion para evaluar"]
    ELSE IF CriteriaValid(answer) /\ total_score(answer) >= 0 /\ total_score(answer) <= 100
         THEN [score |-> total_score(answer), feedback |-> "feedback_summary"]
         ELSE [score |-> 0, feedback |-> "Error en evaluacion SEO"]

\* the threshold test of seo_evaluator with "score > 0" for the comparison
IsDoneAfterEval_positive_score(is_done, score, threshold) ==
    IF score > 0 THEN TRUE ELSE is_done

\* if score >= state.evaluator.score_threshold: is_done = True
IsDoneAfterEval(is_done, score, threshold) ==
    IF score >= threshold THEN TRUE ELSE is_done

\* seo_evaluator that registers the attempt in the trajectory only when the
\* evaluation produced a score
seo_evaluator_skip_failed(state, answer) ==
    LET o == EvalOutcome(state, answer)
        description == IF state.actor.current_description = "None"
                       THEN "" ELSE state.actor.current_description
    IN  [state EXCEPT
           !.trajectory.attempts =
               IF o.score > 0
               THEN Append(@, [attempt |-> state.global_state.current_attempt,
                               description |-> description,
                               score |-> o.score, feedback |-> o.feedback])
               ELSE @,
           !.evaluator.last_score = o.score,
           !.evaluator.last_feedback = o.feedback,
           !.evaluator.evaluation_history = Append(@,
               [attempt |-> state.global_state.current_attempt,
                score |-> o.score, feedback |-> o.feedback]),
           !.global_state.is_done =
               IsDoneAfterEval(@, o.score, state.evaluator.score_threshold)]

seo_evaluator(state, answer) ==
    LET o == EvalOutcome(state, answer)
        description == IF state.actor.current_description = "None"
                       THEN "" ELSE state.actor.current_description
    IN  [state EXCEPT
           !.trajectory.attempts = Append(@,
               [attempt |-> state.global_state.current_attempt,
                description |-> description,
                score |-> o.score, feedback |-> o.feedback]),
           !.evaluator.last_score = o.score,
           !.evaluator.last_feedback = o.feedback,
           !.evaluator.evaluation_history = Append(@,
               [attempt |-> state.global_state.current_attempt,
                score |-> o.score, feedback |-> o.feedback]),
           !.global_state.is_done =
               IsDoneAfterEval(@, o.score, state.evaluator.score_threshold)]

\* the loop over reflection.lessons in seo_reflector
RECURSIVE ValidLessons(_)
ValidLessons(ls) ==
    IF ls = <<>> THEN <<>>
    ELSE LET l == Head(ls)
         IN  IF StripIsEmpty(l) THEN ValidLessons(Tail(ls))
             ELSE <<(IF StartsWithPrefix(l) THEN l ELSE <<PREFIX, ", ">> \o l)>>
                  \o ValidLessons(Tail(ls))

FallbackLesson == <<PREFIX, ", ", "revisar criterios SEO basicos">>

\* the lessons of a seo_reflector that keeps the non-blank lessons as the
\* oracle wrote them
ReflectorLessons_unframed(answer) ==
    LET kept == SelectSeq(answer, LAMBDA l : ~StripIsEmpty(l))
    IN  IF answer = <<>> \/ Len(answer) > 3 \/ kept = <<>>
        THEN <<FallbackLesson>>
        ELSE kept

\* the lessons of a seo_reflector without the "if not valid_lessons" test
ReflectorLessons_no_empty_test(answer) ==
    IF answer = <<>> \/ Len(answer) > 3
    THEN <<FallbackLesson>>
    ELSE ValidLessons(answer)

\* the lessons seo_reflector passes to add_reflections
ReflectorLessons(answer) ==
    IF answer = <<>> \/ Len(answer) > 3 \/ ValidLessons(answer) = <<>>
    THEN <<FallbackLesson>>
    ELSE ValidLessons(answer)

seo_reflector(state, answer) ==
    [state EXCEPT
       !.seo_memory = add_reflections(@, ReflectorLessons(answer)),
       !.global_state.completed_reflection_cycles = @ + 1]

\* route_after_seo_eval with the success test moved before the mandatory
\* reflection test
route_done_before_reflection(state) ==
    LET gs == state.global_state
    IN  IF gs.current_attempt >= gs.max_attempts THEN "END"
        ELSE IF gs.is_done THEN "END"
        ELSE IF gs.completed_reflection_cycles < gs.min_reflection_cycles THEN "reflect"
        ELSE "reflect"

\* route_after_seo_eval with the mandatory reflection test moved before the
\* attempt limit
route_reflection_before_limit(state) ==
    LET gs == state.global_state
    IN  IF gs.completed_reflection_cycles < gs.min_reflection_cycles THEN "reflect"
        ELSE IF gs.current_attempt >= gs.max_attempts THEN "END"
        ELSE IF gs.is_done THEN "END"
        ELSE "reflect"

\* route_after_seo_eval with > for >= in the attempt limit
route_strict_limit(state) ==
    LET gs == state.global_state
    IN  IF gs.current_attempt > gs.max_attempts THEN "END"
        ELSE IF gs.completed_reflection_cycles < gs.min_reflection_cycles THEN "reflect"
        ELSE IF gs.is_done THEN "END"
        ELSE "reflect"

\* route_after_seo_eval whose last rule answers END
route_fail_ends(state) ==
    LET gs == state.global_state
    IN  IF gs.current_attempt >= gs.max_attempts THEN "END"
        ELSE IF gs.completed_reflection_cycles < gs.min_reflection_cycles THEN "reflect"
        ELSE IF gs.is_done THEN "END"
        ELSE "END"

route_after_seo_eval(state) ==
    LET gs == state.global_state
    IN  IF gs.current_attempt >= gs.max_attempts THEN "END"
        ELSE IF gs.completed_reflection_cycles < gs.min_reflection_cycles THEN "reflect"
        ELSE IF gs.is_done THEN "END"
        ELSE "reflect"

(***************************************************************************)
(* Reflexion: what a node invocation asked of the oracle.                  *)
(***************************************************************************)
NoCall == [ node |-> "none", invoked |-> FALSE, answer |-> "none", offered |-> <<>> ]

\* seo_actor always calls llm.invoke
ActorCall(answer) ==
    [ node |-> "seo_actor", invoked |-> TRUE, answer |-> answer, offered |-> <<>> ]

\* seo_evaluator calls the oracle only in the else branch of
\* "if not description.strip()"
EvaluatorCall(state, answer) ==
    IF DescriptionBlank(state.actor.current_description)
    THEN [ node |-> "seo_evaluator", invoked |-> FALSE, answer |-> "none",
           offered |-> <<>> ]
    ELSE [ node |-> "seo_evaluator", invoked |-> TRUE, answer |-> answer,
           offered |-> <<>> ]

\* seo_reflector always calls the oracle; offered is the list it passes to
\* new_memory.add_reflections
ReflectorCall(answer) ==
    [ node |-> "seo_reflector", invoked |-> TRUE, answer |-> answer,
      offered |-> ReflectorLessons(answer) ]

(***************************************************************************)
(* Reflexion: the two drivers and the entry point.                         *)
(***************************************************************************)
SeoNodes == {"seo_actor", "seo_evaluator", "seo_reflector"}

\* while current_node != "END" and current_attempt < max_attempts
SimpleLoopGuard(node, state) ==
    /\ node # "END"
    /\ state.global_state.current_attempt < state.global_state.max_attempts

\* current_node = next_step if next_step != "END" else "END"
SimpleAfterEval(next_step) == IF next_step # "END" THEN next_step ELSE "END"

\* add_conditional_edges("seo_evaluator", route_after_seo_eval,
\*                       {"reflect": "seo_reflector", "END": END})
LangGraphAfterEval(next_step) ==
    IF next_step = "reflect" THEN "seo_reflector" ELSE "END"

NoResult ==
    [ returned |-> FALSE, success |-> FALSE, seo_score |-> 0, attempts_used |-> 0,
      reflection_cycles |-> 0, improved_description |-> "None",
      seo_lessons |-> <<>>, evaluation_history |-> <<>>, final_feedback |-> "None" ]

\* the result dict of improve_product_description_with_reflexion
BuildResult(final_state) ==
    [ returned |-> TRUE,
      success |-> final_state.global_state.is_done,
      seo_score |-> final_state.evaluator.last_score,
      attempts_used |-> final_state.global_state.current_attempt,
      reflection_cycles |-> final_state.global_state.completed_reflection_cycles,
      improved_description |-> final_state.actor.current_description,
      seo_lessons |-> final_state.seo_memory.lessons,
      evaluation_history |-> final_state.evaluator.evaluation_history,
      final_feedback |-> final_state.evaluator.last_feedback ]

SeoRunning == ~seo_result.returned

\* the driver is about to run node n
SeoAt(n) ==
    /\ SeoRunning
    /\ seo_node = n
    /\ (langgraph \/ SimpleLoopGuard(seo_node, seo))

ReactIdle ==
    [ thoughts |-> <<>>, actions |-> <<>>, observations |-> <<>>,
      current_step_type |-> "None", step_counter |-> 0, max_steps |-> 15,
      should_continue |-> TRUE, product_context |-> <<>>, final_answer |-> "None" ]

MemIdle == [ lessons |-> <<>>, memory_capacity |-> 3 ]

InitSeo ==
    /\ langgraph \in BOOLEAN
    /\ \E maxAtt \in 0..MaxAttemptsBound, minCyc \in 0..MaxMinCycles, thr \in Thresholds :
           seo = create_initial(maxAtt, minCyc, thr)
    /\ seo_node = "seo_actor"
    /\ seo_phases = <<>>
    /\ seo_routes = <<>>
    /\ seo_spins = 0
    /\ seo_call = NoCall
    /\ seo_result = NoResult
    /\ react = ReactIdle
    /\ react_node = "think"
    /\ react_phases = <<>>
    /\ react_oracle = <<>>
    /\ react_calls = <<>>
    /\ react_prompt = <<>>
    /\ react_status = "idle"
    /\ mem = MemIdle
    /\ mem_added = <<>>

ActorStep ==
    /\ SeoAt("seo_actor")
    /\ \E answer \in ActorOracle :
         /\ seo' = seo_actor(seo, answer)
         /\ seo_call' = ActorCall(answer)
    /\ seo_node' = "seo_evaluator"
    /\ seo_phases' = Append(seo_phases, "seo_actor")
    /\ UNCHANGED <<langgraph, seo_routes, seo_spins, seo_result, reactVars, memVars>>

EvaluatorStep ==
    /\ SeoAt("seo_evaluator")
    /\ \E answer \in EvalOracle :
         LET after     == seo_evaluator(seo, answer)
             next_step == route_after_seo_eval(after)
         IN  /\ seo' = after
             /\ seo_call' = EvaluatorCall(seo, answer)
             /\ seo_node' = IF langgraph THEN LangGraphAfterEval(next_step)
                                         ELSE SimpleAfterEval(next_step)
             /\ seo_routes' = Append(seo_routes,
                    [attempt |-> after.global_state.current_attempt,
                     is_done |-> after.global_state.is_done,
                     answer  |-> next_step])
    /\ seo_phases' = Append(seo_phases, "seo_evaluator")
    /\ UNCHANGED <<langgraph, seo_spins, seo_result, reactVars, memVars>>

ReflectorStep ==
    /\ SeoAt("seo_reflector")
    /\ \E answer \in ReflectOracle :
         /\ seo' = seo_reflector(seo, answer)
         /\ seo_call' = ReflectorCall(answer)
    /\ seo_node' = "seo_actor"
    /\ seo_phases' = Append(seo_phases, "seo_reflector")
    /\ UNCHANGED <<langgraph, seo_routes, seo_spins, seo_result, reactVars, memVars>>

\* SimpleReflexionGraph.invoke with current_node matching no branch of the
\* if/elif chain: the iteration runs no node and changes nothing of the run,
\* so the loop guard stays true and the loop never leaves this state.
\* seo_spins counts these iterations modulo MaxSpins.
SpinStep ==
    /\ ~langgraph
    /\ SeoRunning
    /\ SimpleLoopGuard(seo_node, seo)
    /\ seo_node \notin SeoNodes
    /\ seo_spins' = (seo_spins + 1) % MaxSpins
    /\ UNCHANGED <<langgraph, seo, seo_node, seo_phases, seo_routes, seo_call,
                   seo_result, reactVars, memVars>>

ReturnStep ==
    /\ SeoRunning
    /\ IF langgraph THEN seo_node = "END" ELSE ~SimpleLoopGuard(seo_node, seo)
    /\ seo_result' = BuildResult(seo)
    /\ UNCHANGED <<langgraph, seo, seo_node, seo_phases, seo_routes, seo_spins,
                   seo_call, reactVars, memVars>>

NextSeo == ActorStep \/ EvaluatorStep \/ ReflectorStep \/ SpinStep \/ ReturnStep

SpecSeo == InitSeo /\ [][NextSeo]_vars

\* the loop of one run is a sequential program: it keeps executing
FairSpecSeo == SpecSeo /\ WF_vars(NextSeo)

(***************************************************************************)
(* Reflexion: seo_evaluator called directly (the function is exported by   *)
(* the package) on a state as create_initial builds it, with or without a  *)
(* description stored in it.                                               *)
(***************************************************************************)
\* SEOActorState.current_description: None, empty, blank, or a text
EvalDescriptions == {"None", "", " ", "gen"}

InitEval ==
    /\ langgraph = FALSE
    /\ \E maxAtt \in 0..MaxAttemptsBound, minCyc \in 0..MaxMinCycles, thr \in Thresholds,
          d \in EvalDescriptions :
           seo = [create_initial(maxAtt, minCyc, thr) EXCEPT !.actor.current_description = d]
    /\ seo_node = "seo_evaluator"
    /\ seo_phases = <<>>
    /\ seo_routes = <<>>
    /\ seo_spins = 0
    /\ seo_call = NoCall
    /\ seo_result = NoResult
    /\ react = ReactIdle
    /\ react_node = "think"
    /\ react_phases = <<>>
    /\ react_oracle = <<>>
    /\ react_calls = <<>>
    /\ react_prompt = <<>>
    /\ react_status = "idle"
    /\ mem = MemIdle
    /\ mem_added = <<>>

\* state = seo_evaluator(state)
EvalCall ==
    /\ Len(seo_phases) < MaxEvalCalls
    /\ \E answer \in EvalOracle :
         /\ seo' = seo_evaluator(seo, answer)
         /\ seo_call' = EvaluatorCall(seo, answer)
    /\ seo_phases' = Append(seo_phases, "seo_evaluator")
    /\ UNCHANGED <<langgraph, seo_node, seo_routes, seo_spins, seo_result,
                   reactVars, memVars>>

NextEval == EvalCall

SpecEval == InitEval /\ [][NextEval]_vars

(***************************************************************************)
(* Reflexion: properties.                                                  *)
(***************************************************************************)
SeoGs == seo.global_state

SeoLastPhase == IF seo_phases = <<>> THEN "none" ELSE seo_phases[Len(seo_phases)]

\* C1 as stated: whenever a run has reached its end,
\* completed_reflection_cycles >= min_reflection_cycles.
C1_CyclesAtEnd ==
    seo_result.returned =>
        SeoGs.completed_reflection_cycles >= SeoGs.min_reflection_cycles

\* C1 amended: whenever a run has reached its end before the attempt limit
\* (current_attempt < max_attempts), completed_reflection_cycles >=
\* min_reflection_cycles.
C1_CyclesAtEndBeforeLimit ==
    (seo_result.returned /\ SeoGs.current_attempt < SeoGs.max_attempts) =>
        SeoGs.completed_reflection_cycles >= SeoGs.min_reflection_cycles

C1_Witness ==
    /\ seo_result.returned
    /\ SeoGs.current_attempt < SeoGs.max_attempts
    /\ SeoGs.min_reflection_cycles >= 1
    /\ SeoGs.completed_reflection_cycles >= 1
    /\ SeoLastPhase = "seo_evaluator"

\* C2: right after a seo_evaluator invocation, is_done is true if and only
\* if the score of that invocation is >= score_threshold.
C2_IsDoneIffScore ==
    SeoLastPhase = "seo_evaluator" =>
        (SeoGs.is_done <=> seo.evaluator.last_score >= seo.evaluator.score_threshold)

\* C3: current_attempt <= max_attempts + 1 in every state, and from a state
\* with current_attempt > max_attempts no seo_actor invocation follows.
C3_AttemptBound ==
    /\ [](SeoGs.current_attempt <= SeoGs.max_attempts + 1)
    /\ [][SeoGs.current_attempt > SeoGs.max_attempts =>
             /\ seo'.global_state.current_attempt = SeoGs.current_attempt
             /\ (seo_phases' = seo_phases \/
                 seo_phases'[Len(seo_phases')] # "seo_actor")]_vars

C3_Witness ==
    /\ SeoGs.current_attempt = SeoGs.max_attempts + 1
    /\ SeoLastPhase = "seo_evaluator"
    /\ seo_result.returned

\* C5: a routing evaluation in a state with current_attempt = max_attempts
\* sends the run to END, and no node is invoked once the run is at END.
C5_LimitEndsRun ==
    [][ /\ (Len(seo_routes') > Len(seo_routes) /\
            seo'.global_state.current_attempt = seo'.global_state.max_attempts)
           => seo_node' = "END"
        /\ seo_node = "END" => seo_phases' = seo_phases ]_vars

C5_Witness ==
    /\ seo_result.returned
    /\ seo_routes # <<>>
    /\ seo_routes[Len(seo_routes)].attempt = SeoGs.max_attempts
    /\ ~SeoGs.is_done
    /\ SeoGs.completed_reflection_cycles < SeoGs.min_reflection_cycles
    /\ SeoLastPhase = "seo_evaluator"

SeoHistory == seo.evaluator.evaluation_history

SeoAllBelow ==
    \A i \in 1..Len(SeoHistory) : SeoHistory[i].score < seo.evaluator.score_threshold

\* C9: a run with max_attempts >= 2 in which every evaluation scores below
\* score_threshold ends with success = false, attempts_used = max_attempts
\* and reflection_cycles >= 1.
C9_AllFailingRunEnds ==
    [](SeoGs.max_attempts >= 2 =>
         <>(\/ ~SeoAllBelow
            \/ /\ seo_result.returned
               /\ ~seo_result.success
               /\ seo_result.attempts_used = SeoGs.max_attempts
               /\ seo_result.reflection_cycles >= 1))

SeoFirstPasses ==
    /\ Len(SeoHistory) >= 1
    /\ SeoHistory[1].score >= seo.evaluator.score_threshold

\* C10: with min_reflection_cycles = 1 and max_attempts = 3, a run whose
\* first attempt scores at or above the threshold ends after exactly the
\* phases actor, evaluator, reflector, actor, evaluator.
C10_PassingFirstAttempt ==
    []((SeoGs.min_reflection_cycles = 1 /\ SeoGs.max_attempts = 3 /\ SeoFirstPasses) =>
         <>(/\ seo_result.returned
            /\ seo_phases = <<"seo_actor", "seo_evaluator", "seo_reflector",
                              "seo_actor", "seo_evaluator">>))

(***************************************************************************)
(* Episodic memory on its own: a SEOMemoryState of any capacity receiving  *)
(* add_reflections calls of 1 to 3 lessons each.                           *)
(***************************************************************************)
MemLessons == {LessonA, FallbackLesson}

MemBatches ==
    UNION {[1..n -> MemLessons] : n \in 1..3}

SeoIdle == create_initial(3, 1, 80)

InitMem ==
    /\ \E cap \in 0..MaxCapacity : mem = [lessons |-> <<>>, memory_capacity |-> cap]
    /\ mem_added = <<>>
    /\ langgraph = FALSE
    /\ seo = SeoIdle
    /\ seo_node = "seo_actor"
    /\ seo_phases = <<>>
    /\ seo_routes = <<>>
    /\ seo_spins = 0
    /\ seo_call = NoCall
    /\ seo_result = NoResult
    /\ react = ReactIdle
    /\ react_node = "think"
    /\ react_phases = <<>>
    /\ react_oracle = <<>>
    /\ react_calls = <<>>
    /\ react_prompt = <<>>
    /\ react_status = "idle"

\* new_memory.add_reflections(lessons)
AddReflections ==
    \E new_reflections \in MemBatches :
        /\ Len(mem_added) + Len(new_reflections) <= MaxAdded
        /\ mem' = add_reflections(mem, new_reflections)
        /\ mem_added' = mem_added \o new_reflections
        /\ UNCHANGED <<seoVars, reactVars>>

NextMem == AddReflections

SpecMem == InitMem /\ [][NextMem]_vars

\* the last k elements of s
LastK(s, k) == SubSeq(s, Len(s) - k + 1, Len(s))

\* C6: len(lessons) <= memory_capacity, and lessons is exactly the last
\* min(capacity, total added) lessons added, in insertion order.
C6_MemoryBounded ==
    /\ Len(mem.lessons) <= mem.memory_capacity
    /\ mem.lessons = LastK(mem_added, Min(mem.memory_capacity, Len(mem_added)))

(***************************************************************************)
(* ReAct: tools (tools/__init__.py) over the sample catalogue.             *)
(***************************************************************************)
ActionTypes ==
    {"search_products", "get_product_details", "check_stock",
     "get_price_history", "get_category_products", "finish"}

\* arguments the oracle may pass: a product id of the catalogue, and a
\* search term that is no product id
Arguments == {"PHONE001", "laptop"}

ProductIds == {"LAPTOP001", "LAPTOP002", "PHONE001", "MOUSE001", "TABLET001"}

\* the catalogue entries whose name/description/category/brand contain the term
SearchMatches(term) ==
    IF term = "laptop" THEN <<"LAPTOP001", "LAPTOP002">> ELSE <<>>

search_products(query) ==
    [ success |-> TRUE, content |-> <<"Encontrados", query>>,
      products_found |-> SearchMatches(query) ]

\* get_product_details, check_stock and get_price_history: found or not found
LookupTool(label, product_id) ==
    IF product_id \in ProductIds
    THEN [ success |-> TRUE,  content |-> <<label, product_id>>, products_found |-> <<>> ]
    ELSE [ success |-> FALSE, content |-> <<label, product_id, "no encontrado">>,
           products_found |-> <<>> ]

get_category_products(category) ==
    [ success |-> TRUE, content |-> <<"Productos en categoria", category>>,
      products_found |-> <<>> ]

(***************************************************************************)
(* ReAct: state and node functions (schemas/__init__.py, nodes/__init__.py)*)
(***************************************************************************)
create_initial_state(maxSteps) ==
    [ thoughts |-> <<>>, actions |-> <<>>, observations |-> <<>>,
      current_step_type |-> "None", step_counter |-> 0, max_steps |-> maxSteps,
      should_continue |-> TRUE, product_context |-> <<>>, final_answer |-> "None" ]

\* the first n rounds of build_react_trajectory: per round the thought, the
\* action and the observation of that index, each if it exists
RECURSIVE TrajectoryRounds(_, _)
TrajectoryRounds(state, n) ==
    IF n <= 0 THEN <<>>
    ELSE TrajectoryRounds(state, n - 1)
         \o (IF n <= Len(state.thoughts)
             THEN <<[kind |-> "Thought", text |-> state.thoughts[n].content]>> ELSE <<>>)
         \o (IF n <= Len(state.actions)
             THEN <<[kind |-> "Action", text |-> <<state.actions[n].action_type,
                                                   state.actions[n].argument>>]>> ELSE <<>>)
         \o (IF n <= Len(state.observations)
             THEN <<[kind |-> "Observation", text |-> state.observations[n].content]>>
             ELSE <<>>)

Max3(a, b, c) ==
    IF a >= b /\ a >= c THEN a ELSE IF b >= c THEN b ELSE c

\* build_react_trajectory with range(max_steps - 1)
build_react_trajectory_short(state) ==
    TrajectoryRounds(state, Max3(Len(state.thoughts), Len(state.actions),
                                 Len(state.observations)) - 1)

\* schemas build_react_trajectory, which build_react_messages_from_state
\* puts into the messages of think_node and act_node
build_react_trajectory(state) ==
    TrajectoryRounds(state, Max3(Len(state.thoughts), Len(state.actions),
                                 Len(state.observations)))

\* think_node with step_num = step_counter + 3
think_node_triple_count(state, thought) ==
    [state EXCEPT
       !.thoughts = Append(@, [content |-> thought, step_number |-> state.step_counter + 3]),
       !.current_step_type = "think",
       !.step_counter = state.step_counter + 3]

\* think_node with step_num = step_counter - 1
think_node_count_down(state, thought) ==
    [state EXCEPT
       !.thoughts = Append(@, [content |-> thought, step_number |-> state.step_counter - 1]),
       !.current_step_type = "think",
       !.step_counter = state.step_counter - 1]

\* think_node that leaves step_counter out of its update
think_node_no_count(state, thought) ==
    [state EXCEPT
       !.thoughts = Append(@, [content |-> thought, step_number |-> state.step_counter + 1]),
       !.current_step_type = "think"]

\* think_node that returns [new_thought] instead of state.thoughts + [new_thought]
think_node_drop_history(state, thought) ==
    [state EXCEPT
       !.thoughts = <<[content |-> thought, step_number |-> state.step_counter + 1]>>,
       !.current_step_type = "think",
       !.step_counter = state.step_counter + 1]

think_node(state, thought) ==
    LET step_num == state.step_counter + 1
    IN  [state EXCEPT
           !.thoughts = Append(@, [content |-> thought, step_number |-> step_num]),
           !.current_step_type = "think",
           !.step_counter = step_num]

FORCED_ARGUMENT == "Limite de pasos alcanzado"

\* act_node whose normal path leaves step_counter out of its update
act_node_keeps_counter(state, response) ==
    LET step_num == state.step_counter + 1
    IN  IF step_num > state.max_steps /\ response.action_type # "finish"
        THEN [state EXCEPT
                !.actions = Append(@, [action_type |-> "finish",
                                       argument |-> FORCED_ARGUMENT,
                                       step_number |-> step_num]),
                !.should_continue = FALSE,
                !.step_counter = step_num]
        ELSE [state EXCEPT
                !.actions = Append(@, [action_type |-> response.action_type,
                                       argument |-> response.argument,
                                       step_number |-> step_num]),
                !.current_step_type = "act",
                !.should_continue = (response.action_type # "finish"),
                !.final_answer = IF response.action_type = "finish"
                                 THEN response.argument ELSE @]

\* act_node that copies the argument of every action into final_answer
act_node_always_answer(state, response) ==
    LET step_num == state.step_counter + 1
    IN  IF step_num > state.max_steps /\ response.action_type # "finish"
        THEN [state EXCEPT
                !.actions = Append(@, [action_type |-> "finish",
                                       argument |-> FORCED_ARGUMENT,
                                       step_number |-> step_num]),
                !.should_continue = FALSE,
                !.step_counter = step_num]
        ELSE [state EXCEPT
                !.actions = Append(@, [action_type |-> response.action_type,
                                       argument |-> response.argument,
                                       step_number |-> step_num]),
                !.current_step_type = "act",
                !.step_counter = step_num,
                !.should_continue = (response.action_type # "finish"),
                !.final_answer = response.argument]

\* act_node without the "Verificar limite de pasos" block
act_node_no_forcing(state, response) ==
    LET step_num == state.step_counter + 1
    IN  [state EXCEPT
           !.actions = Append(@, [action_type |-> response.action_type,
                                  argument |-> response.argument,
                                  step_number |-> step_num]),
           !.current_step_type = "act",
           !.step_counter = step_num,
           !.should_continue = (response.action_type # "finish"),
           !.final_answer = IF response.action_type = "finish"
                            THEN response.argument ELSE @]

act_node(state, response) ==
    LET step_num == state.step_counter + 1
    IN  IF step_num > state.max_steps /\ response.action_type # "finish"
        THEN [state EXCEPT
                !.actions = Append(@, [action_type |-> "finish",
                                       argument |-> FORCED_ARGUMENT,
                                       step_number |-> step_num]),
                !.should_continue = FALSE,
                !.step_counter = step_num]
        ELSE [state EXCEPT
                !.actions = Append(@, [action_type |-> response.action_type,
                                       argument |-> response.argument,
                                       step_number |-> step_num]),
                !.current_step_type = "act",
                !.step_counter = step_num,
                !.should_continue = (response.action_type # "finish"),
                !.final_answer = IF response.action_type = "finish"
                                 THEN response.argument ELSE @]

\* the tool call of observe_node and the source label of its observation
ToolResult(action) ==
    CASE action.action_type = "search_products"       -> search_products(action.argument)
      [] action.action_type = "get_product_details"   -> LookupTool("Detalles", action.argument)
      [] action.action_type = "check_stock"           -> LookupTool("Stock", action.argument)
      [] action.action_type = "get_price_history"     -> LookupTool("Historial", action.argument)
      [] action.action_type = "get_category_products" -> get_category_products(action.argument)
      [] OTHER -> [ success |-> TRUE, products_found |-> <<>>,
                    content |-> <<"Consulta completada", action.argument>> ]

SourceOf(action_type) ==
    CASE action_type \in {"search_products", "get_category_products"} -> "hybris_catalog"
      [] action_type = "get_product_details" -> "hybris_product"
      [] action_type = "check_stock"         -> "hybris_inventory"
      [] action_type = "get_price_history"   -> "hybris_pricing"
      [] OTHER -> "system"

\* the branch of the if/elif chain of observe_node names the tool it calls
ToolName(action_type) ==
    CASE action_type = "search_products"       -> "search_products"
      [] action_type = "get_product_details"   -> "get_product_details"
      [] action_type = "check_stock"           -> "check_stock"
      [] action_type = "get_price_history"     -> "get_price_history"
      [] action_type = "get_category_products" -> "get_category_products"
      [] OTHER -> "none"

\* what each tool of tools/__init__.py returns for an argument
Invoke(tool, argument) ==
    CASE tool = "search_products"       -> search_products(argument)
      [] tool = "get_product_details"   -> LookupTool("Detalles", argument)
      [] tool = "check_stock"           -> LookupTool("Stock", argument)
      [] tool = "get_price_history"     -> LookupTool("Historial", argument)
      [] tool = "get_category_products" -> get_category_products(argument)

\* the tool calls one observe_node invocation makes
observe_calls(state) ==
    IF state.actions = <<>> THEN <<>>
    ELSE LET latest_action == state.actions[Len(state.actions)]
         IN  IF ToolName(latest_action.action_type) = "none" THEN <<>>
             ELSE <<[tool     |-> ToolName(latest_action.action_type),
                     argument |-> latest_action.argument,
                     content  |-> ToolResult(latest_action).content]>>

\* observe_node that stores the shortened text it prints (content[:100])
observe_node_truncated(state) ==
    IF state.actions = <<>> THEN [state EXCEPT !.current_step_type = "observe"]
    ELSE LET latest_action == state.actions[Len(state.actions)]
             result == ToolResult(latest_action)
         IN  [state EXCEPT
                !.observations = Append(@, [content |-> SubSeq(result.content, 1, 2),
                                            source |-> SourceOf(latest_action.action_type),
                                            step_number |-> state.step_counter]),
                !.current_step_type = "observe",
                !.should_continue = (latest_action.action_type # "finish"),
                !.product_context =
                    IF latest_action.action_type = "search_products" /\ result.success
                    THEN @ \o result.products_found ELSE @]

\* observe_node that adds to found_products only the items not yet in it
observe_node_dedup(state) ==
    IF state.actions = <<>> THEN [state EXCEPT !.current_step_type = "observe"]
    ELSE LET latest_action == state.actions[Len(state.actions)]
             result == ToolResult(latest_action)
             known(p) == \E i \in 1..Len(state.product_context) :
                            state.product_context[i] = p
         IN  [state EXCEPT
                !.observations = Append(@, [content |-> result.content,
                                            source |-> SourceOf(latest_action.action_type),
                                            step_number |-> state.step_counter]),
                !.current_step_type = "observe",
                !.should_continue = (latest_action.action_type # "finish"),
                !.product_context =
                    IF latest_action.action_type = "search_products" /\ result.success
                    THEN @ \o SelectSeq(result.products_found, LAMBDA p : ~known(p))
                    ELSE @]

\* observe_node that stops the run when the tool reports a failure
observe_node_stop_on_failure(state) ==
    IF state.actions = <<>> THEN [state EXCEPT !.current_step_type = "observe"]
    ELSE LET latest_action == state.actions[Len(state.actions)]
             result == ToolResult(latest_action)
         IN  [state EXCEPT
                !.observations = Append(@, [content |-> result.content,
                                            source |-> SourceOf(latest_action.action_type),
                                            step_number |-> state.step_counter]),
                !.current_step_type = "observe",
                !.should_continue = (latest_action.action_type # "finish" /\ result.success),
                !.product_context =
                    IF latest_action.action_type = "search_products" /\ result.success
                    THEN @ \o result.products_found ELSE @]

observe_node(state) ==
    IF state.actions = <<>> THEN [state EXCEPT !.current_step_type = "observe"]
    ELSE LET latest_action == state.actions[Len(state.actions)]
             result == ToolResult(latest_action)
         IN  [state EXCEPT
                !.observations = Append(@, [content |-> result.content,
                                            source |-> SourceOf(latest_action.action_type),
                                            step_number |-> state.step_counter]),
                !.current_step_type = "observe",
                !.should_continue = (latest_action.action_type # "finish"),
                !.product_context =
                    IF latest_action.action_type = "search_products" /\ result.success
                    THEN @ \o result.products_found ELSE @]

\* should_continue without the "if not state.should_continue" test
should_continue_ignores_flag(state) ==
    IF state.step_counter >= state.max_steps THEN "end"
    ELSE "think"

\* server/main.py should_continue
should_continue(state) ==
    IF ~state.should_continue THEN "end"
    ELSE IF state.step_counter >= state.max_steps THEN "end"
    ELSE "think"

(***************************************************************************)
(* ReAct: SimpleGraph.invoke (server/main.py).                             *)
(***************************************************************************)
\* the while condition with <= for <
ReactLoopGuard_inclusive(node, state) ==
    /\ node # "end"
    /\ state.step_counter <= state.max_steps

\* while current_node != "end" and state.step_counter < state.max_steps
ReactLoopGuard(node, state) ==
    /\ node # "end"
    /\ state.step_counter < state.max_steps

\* structured answers of the oracle; "raise" is a failed call or a response
\* the schema rejects
ThoughtOracle == {"pensamiento", "raise"}

ActionOracle ==
    [action_type : ActionTypes, argument : Arguments] \cup
    {[action_type |-> "raise", argument |-> "raise"]}

ReactAt(n) ==
    /\ react_status = "running"
    /\ react_node = n
    /\ ReactLoopGuard(react_node, react)

InitReact ==
    /\ \E maxSteps \in 1..MaxStepsBound : react = create_initial_state(maxSteps)
    /\ react_node = "think"
    /\ react_phases = <<>>
    /\ react_oracle = <<>>
    /\ react_calls = <<>>
    /\ react_prompt = <<>>
    /\ react_status = "running"
    /\ langgraph = FALSE
    /\ seo = SeoIdle
    /\ seo_node = "seo_actor"
    /\ seo_phases = <<>>
    /\ seo_routes = <<>>
    /\ seo_spins = 0
    /\ seo_call = NoCall
    /\ seo_result = NoResult
    /\ mem = MemIdle
    /\ mem_added = <<>>

\* think_node has no handler around the oracle call: an exception leaves
\* SimpleGraph.invoke with the state as it was
ThinkStep ==
    /\ ReactAt("think")
    /\ \E thought \in ThoughtOracle :
         IF thought = "raise"
         THEN /\ react_status' = "raised"
              /\ UNCHANGED <<react, react_node>>
         ELSE /\ react' = think_node(react, thought)
              /\ react_node' = "act"
              /\ UNCHANGED react_status
    /\ react_prompt' = build_react_trajectory(react)
    /\ react_phases' = Append(react_phases, "think")
    /\ UNCHANGED <<react_oracle, react_calls, seoVars, memVars>>

\* the act branch of the loop body: act_node, then current_node = "observe"
ActBody ==
    /\ \E response \in ActionOracle :
         /\ react_oracle' = Append(react_oracle, response)
         /\ IF response.action_type = "raise"
            THEN /\ react_status' = "raised"
                 /\ UNCHANGED <<react, react_node>>
            ELSE /\ react' = act_node(react, response)
                 /\ react_node' = "observe"
                 /\ UNCHANGED react_status
    /\ react_prompt' = build_react_trajectory(react)
    /\ react_phases' = Append(react_phases, "act")
    /\ UNCHANGED <<react_calls, seoVars, memVars>>

ActStep ==
    /\ ReactAt("act")
    /\ ActBody

ObserveStep ==
    /\ ReactAt("observe")
    /\ LET after == observe_node(react)
       IN  /\ react' = after
           /\ react_node' = should_continue(after)
    /\ react_calls' = react_calls \o observe_calls(react)
    /\ react_phases' = Append(react_phases, "observe")
    /\ UNCHANGED <<react_oracle, react_prompt, react_status, seoVars, memVars>>

ReactReturn ==
    /\ react_status = "running"
    /\ ~ReactLoopGuard(react_node, react)
    /\ react_status' = "returned"
    /\ UNCHANGED <<react, react_node, react_phases, react_oracle, react_calls,
                   react_prompt, seoVars, memVars>>

NextReact == ThinkStep \/ ActStep \/ ObserveStep \/ ReactReturn

SpecReact == InitReact /\ [][NextReact]_vars

\* the loop of one run is a sequential program: it keeps executing
FairSpecReact == SpecReact /\ WF_vars(NextReact)

(***************************************************************************)
(* ReAct: act_node applied to a HybrisReActState of any step_counter (the  *)
(* function is exported and SimpleGraph.invoke takes any state), followed  *)
(* by the rest of the loop of SimpleGraph.invoke; and the loop entered at  *)
(* think on such a state.                                                  *)
(***************************************************************************)
InitAct ==
    /\ \E maxSteps \in 0..MaxStepsBound, counter \in 0..(MaxStepsBound + 1) :
           react = [create_initial_state(maxSteps) EXCEPT !.step_counter = counter]
    /\ react_node \in {"think", "act"}
    /\ react_phases = <<>>
    /\ react_oracle = <<>>
    /\ react_calls = <<>>
    /\ react_prompt = <<>>
    /\ react_status = "running"
    /\ langgraph = FALSE
    /\ seo = SeoIdle
    /\ seo_node = "seo_actor"
    /\ seo_phases = <<>>
    /\ seo_routes = <<>>
    /\ seo_spins = 0
    /\ seo_call = NoCall
    /\ seo_result = NoResult
    /\ mem = MemIdle
    /\ mem_added = <<>>

\* updates = act_node(state); current_node = "observe"
ActCall ==
    /\ react_status = "running"
    /\ react_node = "act"
    /\ react_phases = <<>>
    /\ ActBody

NextAct == ActCall \/ ThinkStep \/ ActStep \/ ObserveStep \/ ReactReturn

SpecAct == InitAct /\ [][NextAct]_vars

(***************************************************************************)
(* ReAct: properties.                                                      *)
(***************************************************************************)
ReactLastPhase == IF react_phases = <<>> THEN "none" ELSE react_phases[Len(react_phases)]

ReactLastAction == react.actions[Len(react.actions)]

\* C4: step_counter <= max_steps + 1 in every state of a run.
C4_StepBound == react.step_counter <= react.max_steps + 1

C4_Witness ==
    /\ react_status = "returned"
    /\ react.step_counter = react.max_steps
    /\ react.should_continue
    /\ ReactLastPhase = "act"

\* C7: a run whose first act call gets finish from the oracle ends after
\* exactly one think, one act and one observe, with final_answer equal to
\* the argument of that call.
C7_FinishFirst ==
    (/\ react_status = "returned"
     /\ react_oracle # <<>>
     /\ react_oracle[1].action_type = "finish")
    => /\ react_phases = <<"think", "act", "observe">>
       /\ react.final_answer = react_oracle[1].argument

\* C8: should_continue is false only if the most recently logged action is
\* a finish; that is, while the latest action is a tool action (or there is
\* none) should_continue is true.
C8_StopOnlyOnFinish ==
    ~react.should_continue =>
        (react.actions # <<>> /\ ReactLastAction.action_type = "finish")

C8_Witness ==
    /\ ReactLastPhase = "observe"
    /\ react.actions # <<>>
    /\ ReactLastAction.action_type = "check_stock"
    /\ ~ToolResult(ReactLastAction).success
    /\ Len(react.observations) = Len(react.actions)
    /\ react.should_continue

ReactCount(phase) == Cardinality({i \in 1..Len(react_phases) : react_phases[i] = phase})

\* invocations of a node function that returned (an invocation that raised
\* is the last one of its run)
ReactCompleted(phase) ==
    IF react_status = "raised" /\ ReactLastPhase = phase
    THEN ReactCount(phase) - 1 ELSE ReactCount(phase)

ReactNeverFinish ==
    \A i \in 1..Len(react_oracle) : react_oracle[i].action_type # "finish"

\* C11: every run stops after finitely many node invocations (at most
\* 2 * max_steps of them), also when the oracle never returns finish.
C11_ReactTerminates ==
    /\ [](Len(react_phases) <= 2 * react.max_steps)
    /\ <>(react_status # "running")

C11_Witness ==
    /\ react_status = "returned"
    /\ ReactNeverFinish
    /\ Len(react.actions) >= 2
    /\ ReactLastAction.action_type # "finish"

\* C13: an oracle failure in think or act does not abort the run: the run
\* never leaves SimpleGraph.invoke by an exception.
C13_OracleFailureDoesNotAbort == react_status # "raised"

\* C14 as stated: step_counter equals the number of act invocations so far.
C14_CounterIsActs == react.step_counter = ReactCompleted("act")

\* C14 amended: step_counter equals the number of think invocations plus
\* the number of act invocations completed so far.
C14_CounterIsThinksPlusActs ==
    react.step_counter = ReactCompleted("think") + ReactCompleted("act")

C14_Witness ==
    /\ react.step_counter = 4
    /\ ReactCompleted("think") = 2
    /\ ReactCompleted("act") = 2

\* C15: len(thoughts) >= len(actions) >= len(observations), and the three
\* lengths pairwise differ by at most 1.
C15_LengthsWithinOne ==
    /\ Len(react.thoughts) >= Len(react.actions)
    /\ Len(react.actions) >= Len(react.observations)
    /\ Len(react.thoughts) - Len(react.observations) <= 1

C15_Witness ==
    /\ Len(react.thoughts) = 2
    /\ Len(react.actions) = 2
    /\ Len(react.observations) = 1

\* C16: when a run has terminated, len(thoughts) = len(actions) =
\* len(observations).
C16_LengthsConvergeAtEnd ==
    react_status = "returned" =>
        /\ Len(react.thoughts) = Len(react.actions)
        /\ Len(react.actions) = Len(react.observations)

\* C19: an observe of a finish action calls no tool and appends the
\* synthetic completed observation; an observe of any other action calls
\* exactly the tool named by action_type, once, with the action's argument,
\* and the appended observation's content is that tool's content.
C19_ObserveDispatch ==
    [][ react_phases' = Append(react_phases, "observe") =>
          LET a   == ReactLastAction
              obs == react'.observations[Len(react'.observations)]
          IN  /\ react.actions # <<>>
              /\ Len(react'.observations) = Len(react.observations) + 1
              /\ IF a.action_type = "finish"
                 THEN /\ react_calls' = react_calls
                      /\ obs.content = <<"Consulta completada", a.argument>>
                      /\ obs.source = "system"
                 ELSE /\ react_calls' = Append(react_calls,
                            [tool |-> a.action_type, argument |-> a.argument,
                             content |-> Invoke(a.action_type, a.argument).content])
                      /\ obs.content = Invoke(a.action_type, a.argument).content ]_vars

C19_Witness ==
    /\ ReactLastPhase = "observe"
    /\ react.actions # <<>>
    /\ ReactLastAction.action_type = "check_stock"
    /\ ReactLastAction.argument = "PHONE001"
    /\ react_calls # <<>>
    /\ react_calls[Len(react_calls)].tool = "check_stock"
    /\ react.observations[Len(react.observations)].content = <<"Stock", "PHONE001">>

\* the latest logged action is the synthesized finish
ForcedTaken ==
    /\ react.actions # <<>>
    /\ ReactLastAction.action_type = "finish"
    /\ ReactLastAction.argument = FORCED_ARGUMENT

C22_ActThenObserve ==
    [](Len(react.actions) > Len(react.observations)
         => <>(Len(react.observations) = Len(react.actions)))

\* C23: after an observe invocation the next node is think if and only if
\* should_continue is true and step_counter < max_steps (and the loop then
\* does run think); otherwise it is end.
C23_AfterObserve ==
    [][ react_phases' = Append(react_phases, "observe") =>
          /\ react_node' = IF react'.should_continue /\
                               react'.step_counter < react'.max_steps
                            THEN "think" ELSE "end"
          /\ react_node' = "think" => ReactLoopGuard(react_node', react') ]_vars

C23_Witness ==
    /\ ReactLastPhase = "observe"
    /\ react_node = "end"
    /\ ~react.should_continue
    /\ react.step_counter < react.max_steps
    /\ Len(react.observations) = 2

SeoCount(phase) == Cardinality({i \in 1..Len(seo_phases) : seo_phases[i] = phase})

\* C12: every run (with max_attempts >= 1) ends, and no run makes more than
\* max_attempts seo_actor invocations.
C12_SeoTerminates ==
    /\ [](SeoGs.max_attempts >= 1 => SeoCount("seo_actor") <= SeoGs.max_attempts)
    /\ [](SeoGs.max_attempts >= 1 => <>seo_result.returned)

\* C17: every seo_actor invocation adds exactly 1 to current_attempt,
\* seo_evaluator and seo_reflector leave it unchanged, and it never
\* decreases.
C17_AttemptCounting ==
    [][ /\ seo_phases' = Append(seo_phases, "seo_actor") =>
               seo'.global_state.current_attempt = SeoGs.current_attempt + 1
        /\ (\/ seo_phases' = Append(seo_phases, "seo_evaluator")
            \/ seo_phases' = Append(seo_phases, "seo_reflector")) =>
               seo'.global_state.current_attempt = SeoGs.current_attempt
        /\ seo'.global_state.current_attempt >= SeoGs.current_attempt ]_vars

C17_Witness ==
    /\ SeoLastPhase = "seo_actor"
    /\ seo.actor.current_description = "fallback"
    /\ SeoGs.current_attempt = 2
    /\ SeoCount("seo_reflector") = 1

\* C20: route_after_seo_eval answers END exactly when current_attempt >=
\* max_attempts, or completed_reflection_cycles >= min_reflection_cycles
\* and is_done; in every other state it answers reflect.
C20_RouteRules ==
    LET gs == SeoGs
        r  == route_after_seo_eval(seo)
        end == \/ gs.current_attempt >= gs.max_attempts
               \/ (gs.completed_reflection_cycles >= gs.min_reflection_cycles /\ gs.is_done)
    IN  /\ r = IF end THEN "END" ELSE "reflect"
        /\ (SeoLastPhase = "seo_evaluator" /\ seo_routes # <<>>) =>
               seo_routes[Len(seo_routes)].answer = IF end THEN "END" ELSE "reflect"

C20_Witness ==
    /\ SeoLastPhase = "seo_evaluator"
    /\ seo_routes # <<>>
    /\ seo_routes[Len(seo_routes)].answer = "reflect"
    /\ SeoGs.is_done
    /\ SeoGs.current_attempt < SeoGs.max_attempts
    /\ SeoGs.completed_reflection_cycles < SeoGs.min_reflection_cycles

\* C24: a run that has invoked a node ends only right after a seo_evaluator
\* invocation, never right after seo_actor or seo_reflector.
C24_EndOnlyAfterEvaluator ==
    (seo_result.returned /\ seo_phases # <<>>) => SeoLastPhase = "seo_evaluator"

\* C25: seo_actor and seo_reflector leave is_done unchanged, and is_done
\* changes only from false to true, only in a seo_evaluator invocation, and
\* only when the score of that invocation is >= score_threshold.
C25_IsDoneFrame ==
    [][ /\ (\/ seo_phases' = Append(seo_phases, "seo_actor")
            \/ seo_phases' = Append(seo_phases, "seo_reflector"))
               => seo'.global_state.is_done = SeoGs.is_done
        /\ seo'.global_state.is_done # SeoGs.is_done
               => /\ ~SeoGs.is_done
                  /\ seo'.global_state.is_done
                  /\ seo_phases' = Append(seo_phases, "seo_evaluator")
                  /\ seo'.evaluator.last_score >= seo'.evaluator.score_threshold ]_vars

C25_Witness ==
    /\ SeoLastPhase = "seo_actor"
    /\ SeoGs.is_done
    /\ SeoCount("seo_reflector") = 1
    /\ Len(SeoHistory) = 1
    /\ SeoHistory[1].score >= seo.evaluator.score_threshold

\* C26: after a seo_actor invocation whose oracle call failed or returned a
\* blank text, current_description is the fallback text, current_attempt
\* has been incremented with every actor invocation, and the run goes on to
\* seo_evaluator (it has not ended).
C26_ActorFallback ==
    (/\ SeoLastPhase = "seo_actor"
     /\ seo_call.node = "seo_actor"
     /\ seo_call.answer \in {"raise", " "})
    => /\ seo.actor.current_description = "fallback"
       /\ SeoGs.current_attempt = SeoCount("seo_actor")
       /\ seo_node = "seo_evaluator"
       /\ ~seo_result.returned

SeoAttempts == seo.trajectory.attempts

\* the oracle call of the latest seo_evaluator invocation failed: it raised,
\* or its record has a dimension or a total out of range
SeoEvalFailed ==
    /\ SeoLastPhase = "seo_evaluator"
    /\ seo_call.node = "seo_evaluator"
    /\ seo_call.invoked
    /\ \/ seo_call.answer = <<>>
       \/ ~CriteriaValid(seo_call.answer)
       \/ total_score(seo_call.answer) > 100

\* C27: a seo_evaluator invocation whose oracle call fails, or returns a
\* record with a dimension or total out of range, records score 0 with the
\* error feedback (no clamping) and still appends the attempt, with that
\* score and feedback, to trajectory.attempts and to evaluation_history.
C27_EvaluatorFailure ==
    SeoEvalFailed =>
        LET rec == [attempt |-> SeoGs.current_attempt, score |-> 0,
                    feedback |-> "Error en evaluacion SEO"]
        IN  /\ seo.evaluator.last_score = 0
            /\ seo.evaluator.last_feedback = "Error en evaluacion SEO"
            /\ Len(SeoHistory) = SeoCount("seo_evaluator")
            /\ SeoHistory[Len(SeoHistory)] = rec
            /\ Len(SeoAttempts) = SeoCount("seo_evaluator")
            /\ SeoAttempts[Len(SeoAttempts)] =
                   [attempt |-> rec.attempt,
                    description |-> seo.actor.current_description,
                    score |-> 0, feedback |-> rec.feedback]

C27_Witness ==
    /\ SeoEvalFailed
    /\ seo_call.answer = CriteriaOver
    /\ seo.evaluator.last_score = 0
    /\ Len(SeoAttempts) = 2

\* C28: a seo_evaluator invocation on a state whose current_description is
\* absent, empty or whitespace-only does not call the oracle and records
\* score 0 with the fixed feedback.
C28_BlankDescription ==
    (/\ SeoLastPhase = "seo_evaluator"
     /\ seo.actor.current_description \in {"None", "", " "})
    => /\ seo_call.node = "seo_evaluator"
       /\ ~seo_call.invoked
       /\ seo.evaluator.last_score = 0
       /\ seo.evaluator.last_feedback = "No hay descripcion para evaluar"
       /\ SeoHistory[Len(SeoHistory)].score = 0
       /\ SeoAttempts[Len(SeoAttempts)].description \in {"", " "}

C28_Witness ==
    /\ SeoLastPhase = "seo_evaluator"
    /\ seo.actor.current_description = " "
    /\ ~seo_call.invoked
    /\ seo.evaluator.last_feedback = "No hay descripcion para evaluar"
    /\ Len(SeoAttempts) = 1

\* C29: every seo_evaluator invocation appends exactly one record to
\* trajectory.attempts and one to evaluation_history, both carrying
\* current_attempt and the score and feedback of the invocation; no other
\* step changes the two lists, and both lengths equal the number of
\* seo_evaluator invocations.
C29_EvaluatorAppends ==
    /\ [](/\ Len(SeoAttempts) = SeoCount("seo_evaluator")
          /\ Len(SeoHistory) = SeoCount("seo_evaluator"))
    /\ [][ IF seo_phases' = Append(seo_phases, "seo_evaluator")
           THEN /\ seo'.evaluator.evaluation_history = Append(SeoHistory,
                       [attempt  |-> SeoGs.current_attempt,
                        score    |-> seo'.evaluator.last_score,
                        feedback |-> seo'.evaluator.last_feedback])
                /\ \E d \in {"", " ", "gen", "fallback"} :
                       seo'.trajectory.attempts = Append(SeoAttempts,
                          [attempt     |-> SeoGs.current_attempt,
                           description |-> d,
                           score       |-> seo'.evaluator.last_score,
                           feedback    |-> seo'.evaluator.last_feedback])
           ELSE /\ seo'.evaluator.evaluation_history = SeoHistory
                /\ seo'.trajectory.attempts = SeoAttempts ]_vars

C29_Witness ==
    /\ Len(SeoAttempts) = 2
    /\ Len(SeoHistory) = 2
    /\ SeoAttempts[1].attempt = 1
    /\ SeoAttempts[2].attempt = 2
    /\ SeoHistory[1].score = 0
    /\ SeoHistory[2].score = 95

\* C30: every seo_reflector invocation adds exactly 1 to
\* completed_reflection_cycles and passes between 1 and 3 lessons to the
\* memory, which keeps the last memory_capacity of the old and new lessons;
\* when the oracle call fails (an exception, no lesson, more than 3
\* lessons) or every returned lesson is blank, it passes exactly the one
\* generic fallback lesson.
C30_ReflectorStep ==
    [][ seo_phases' = Append(seo_phases, "seo_reflector") =>
          LET answer  == seo_call'.answer
              offered == seo_call'.offered
              all     == seo.seo_memory.lessons \o offered
          IN  /\ seo'.global_state.completed_reflection_cycles =
                     SeoGs.completed_reflection_cycles + 1
              /\ Len(offered) \in 1..3
              /\ seo'.seo_memory.lessons =
                     LastK(all, Min(Len(all), seo.seo_memory.memory_capacity))
              /\ (\/ Len(answer) = 0
                  \/ Len(answer) > 3
                  \/ \A i \in 1..Len(answer) : StripIsEmpty(answer[i]))
                     => offered = <<FallbackLesson>> ]_vars

C30_Witness ==
    /\ SeoLastPhase = "seo_reflector"
    /\ SeoGs.completed_reflection_cycles = 2
    /\ seo_call.answer = <<LessonBlank>>
    /\ seo_call.offered = <<FallbackLesson>>
    /\ seo.seo_memory.lessons = <<(<<PREFIX, ", ">> \o LessonB), LessonA, FallbackLesson>>

SeoLessons == seo.seo_memory.lessons

\* C31: every lesson stored in the memory is non-blank and begins with
\* the framing prefix; the lessons a reflector invocation passes to the
\* memory are the non-blank lessons of the oracle's answer, in order, each
\* unchanged if it has the prefix and with the prefix prepended if not.
C31_LessonsFramed ==
    /\ \A i \in 1..Len(SeoLessons) :
          ~StripIsEmpty(SeoLessons[i]) /\ StartsWithPrefix(SeoLessons[i])
    /\ (SeoLastPhase = "seo_reflector" /\ seo_call.offered # <<FallbackLesson>>) =>
          LET kept == SelectSeq(seo_call.answer, LAMBDA l : ~StripIsEmpty(l))
          IN  /\ Len(seo_call.offered) = Len(kept)
              /\ \A i \in 1..Len(kept) :
                    seo_call.offered[i] =
                       IF kept[i][1] = PREFIX THEN kept[i]
                       ELSE <<PREFIX, ", ">> \o kept[i]

C31_Witness ==
    /\ SeoLastPhase = "seo_reflector"
    /\ seo_call.answer = <<LessonB, LessonBlank>>
    /\ SeoLessons = <<(<<PREFIX, ", ">> \o LessonB), LessonA,
                      (<<PREFIX, ", ">> \o LessonB)>>

\* the act calls of the run at which the oracle chose finish
ReactFinishCalls == {i \in 1..Len(react_oracle) : react_oracle[i].action_type = "finish"}

\* C32: final_answer is non-null exactly when the oracle chose finish at
\* some act call of the run, and then it is the argument of that call; an
\* act invocation whose oracle answer is not finish (the forced-finish
\* path included) leaves final_answer unchanged.
C32_FinalAnswer ==
    /\ [](/\ react.final_answer # "None" <=> ReactFinishCalls # {}
          /\ \A i \in ReactFinishCalls :
                (\A j \in ReactFinishCalls : j <= i)
                   => react.final_answer = react_oracle[i].argument)
    /\ [][ (/\ react_phases' = Append(react_phases, "act")
            /\ react_oracle'[Len(react_oracle')].action_type # "finish")
           => react'.final_answer = react.final_answer ]_vars

C32_Witness ==
    /\ react_status = "returned"
    /\ react.final_answer = "laptop"
    /\ Len(react.actions) = 2
    /\ react.actions[1].action_type = "check_stock"
    /\ react_oracle[2] = [action_type |-> "finish", argument |-> "laptop"]

\* C33: an observe of a search_products action appends the items the
\* search returned to product_context, in returned order and without
\* removing duplicates; every other step (think, act, observe of any other
\* action) leaves product_context unchanged.
C33_ProductContext ==
    [][ IF /\ react_phases' = Append(react_phases, "observe")
           /\ react.actions # <<>>
           /\ ReactLastAction.action_type = "search_products"
        THEN react'.product_context =
                react.product_context \o
                search_products(ReactLastAction.argument).products_found
        ELSE react'.product_context = react.product_context ]_vars

C33_Witness ==
    /\ ReactLastPhase = "observe"
    /\ react.product_context = <<"LAPTOP001", "LAPTOP002", "LAPTOP001", "LAPTOP002">>
    /\ Len(react.observations) = 2

\* the trajectory of the latest oracle call holds an observation of this content
ReactPromptHas(content) ==
    \E j \in 1..Len(react_prompt) :
        react_prompt[j].kind = "Observation" /\ react_prompt[j].text = content

\* C34: an observe whose tool reports success = false still appends the
\* observation with the tool's message and leaves should_continue true, and
\* the trajectory given to the oracle at every later think and act call
\* contains every observation made so far.
C34_ToolFailure ==
    /\ [][ (/\ react_phases' = Append(react_phases, "observe")
            /\ react.actions # <<>>
            /\ ReactLastAction.action_type # "finish"
            /\ ~Invoke(ReactLastAction.action_type, ReactLastAction.argument).success)
           => /\ Len(react'.observations) = Len(react.observations) + 1
              /\ react'.observations[Len(react'.observations)].content =
                     Invoke(ReactLastAction.action_type, ReactLastAction.argument).content
              /\ react'.should_continue ]_vars
    /\ [](ReactLastPhase \in {"think", "act"} =>
            \A i \in 1..Len(react.observations) :
                ReactPromptHas(react.observations[i].content))

C34_Witness ==
    /\ ReactLastPhase = "act"
    /\ react_status = "running"
    /\ Len(react.observations) = 1
    /\ react.observations[1].content = <<"Stock", "laptop", "no encontrado">>
    /\ ReactPromptHas(<<"Stock", "laptop", "no encontrado">>)

\* C35: step_counter = len(thoughts) + len(actions) in every state of a
\* run, and a run makes at most floor(max_steps / 2) act invocations.
C35_CounterIsListLengths ==
    /\ react.step_counter = Len(react.thoughts) + Len(react.actions)
    /\ ReactCount("act") <= react.max_steps \div 2

C35_Witness ==
    /\ react_status = "returned"
    /\ react.max_steps = 5
    /\ react.step_counter = 5
    /\ Len(react.thoughts) = 3
    /\ Len(react.actions) = 2
    /\ ReactCount("act") = 2

\* the run has returned with its step budget used up
ReactBudgetExhausted ==
    react_status = "returned" /\ react.step_counter >= react.max_steps

\* act_node is invoked only with step_counter + 1 <= max_steps (so the
\* counter never passes max_steps) and never takes the forced-finish branch
ReactNoForcedFinish ==
    /\ react.step_counter <= react.max_steps
    /\ ~ForcedTaken

\* C36 as stated: act_node is only invoked with step_counter + 1 <=
\* max_steps, the forced-finish branch is never taken, and a run that
\* exhausts its budget ends with a last action that is not finish and with
\* final_answer null.
C36_BudgetEndsWithoutFinish ==
    /\ ReactNoForcedFinish
    /\ ReactBudgetExhausted =>
          /\ react.actions # <<>> => ReactLastAction.action_type # "finish"
          /\ react.final_answer = "None"

\* C36 amended: act_node is only invoked with step_counter + 1 <=
\* max_steps, the forced-finish branch is never taken, and a run that
\* exhausts its budget without the oracle having chosen finish ends with a
\* last action that is not finish and with final_answer null.
C36_BudgetEndsWithoutForcedFinish ==
    /\ ReactNoForcedFinish
    /\ (ReactBudgetExhausted /\ ReactFinishCalls = {}) =>
          /\ react.actions # <<>> => ReactLastAction.action_type # "finish"
          /\ react.final_answer = "None"

C36_Witness ==
    /\ ReactBudgetExhausted
    /\ react.max_steps = 4
    /\ ReactLastPhase = "act"
    /\ Len(react.actions) = 2
    /\ ReactLastAction.action_type = "get_price_history"
    /\ react.final_answer = "None"

\* C37: whenever the entry point returns success = true, the returned
\* seo_score is >= score_threshold.
C37_SuccessMeansScore ==
    (seo_result.returned /\ seo_result.success) =>
        seo_result.seo_score >= seo.evaluator.score_threshold

\* C38: when a run ends, evaluation_history has attempts_used records and
\* the last record carries the number of the last attempt: the returned
\* score and feedback are the evaluation of the returned description.
C38_ResultIsEvaluated ==
    seo_result.returned =>
        /\ Len(seo_result.evaluation_history) = seo_result.attempts_used
        /\ seo_result.evaluation_history # <<>> =>
              seo_result.evaluation_history[Len(seo_result.evaluation_history)].attempt
                 = SeoGs.current_attempt

\* the node the graph wired in build_seo_reflexion_graph runs next: the
\* entry point seo_actor, the edges actor -> evaluator and reflector ->
\* actor, and the conditional edge after the evaluator
WiredNext ==
    CASE seo_phases = <<>>                -> "seo_actor"
      [] SeoLastPhase = "seo_actor"       -> "seo_evaluator"
      [] SeoLastPhase = "seo_evaluator"   -> LangGraphAfterEval(route_after_seo_eval(seo))
      [] SeoLastPhase = "seo_reflector"   -> "seo_actor"

\* C39: for max_attempts >= 1 the run of either driver is a run of the wired
\* graph: every node invocation is the one the wiring prescribes, the run
\* returns only when the wiring has reached END, and a loop iteration never
\* passes without the prescribed node being run.
C39_DriversAgree ==
    [][ SeoGs.max_attempts >= 1 =>
          /\ seo_phases' # seo_phases => seo_phases' = Append(seo_phases, WiredNext)
          /\ seo_result'.returned # seo_result.returned => WiredNext = "END"
          /\ seo_spins' = seo_spins ]_vars

====
